---- MODULE Spec2Model ----
(***************************************************************************)
(* A model of yt_playlist_exporter.py: main() reads the playlist inputs,   *)
(* extracts every playlist in one of three modes (flat, hybrid, full),     *)
(* merges the rows, optionally de-duplicates them and writes one file.     *)
(*                                                                         *)
(* Text the program takes apart (command-line arguments, the lines of the  *)
(* --list file) is a sequence of tokens; " " stands for any whitespace     *)
(* character, "list" for the query key of that name.  Text the program     *)
(* only copies and tests for emptiness (titles, channels, ids, urls) is a  *)
(* TLA+ string.  Python's None is "" for such text and NoDuration for a    *)
(* number of seconds: the program reads these fields through `x or y` and  *)
(* `if x`, which do not tell None from the empty value.                    *)
(***************************************************************************)
EXTENDS Integers, Sequences, FiniteSets, TLC

\* ---------------------------------------------------------------- bounds
MaxArgs == 2
MaxLines == 2
MaxRows == 2
MaxWorkers == 2

\* ------------------------------------------------------------- utilities
Range(s) == {s[i] : i \in DOMAIN s}

SeqsUpTo(S, n) == UNION {[1..k -> S] : k \in 0..n}

Max(a, b) == IF a >= b THEN a ELSE b

Or(a, b) == IF a # "" THEN a ELSE b

RECURSIVE Flatten(_)
Flatten(ss) == IF ss = <<>> THEN <<>> ELSE Head(ss) \o Flatten(Tail(ss))

RECURSIVE Str(_)
Str(s) == IF s = <<>> THEN "" ELSE Head(s) \o Str(Tail(s))

IndexOf(s, c) ==
  IF \E i \in DOMAIN s : s[i] = c
  THEN CHOOSE i \in DOMAIN s : s[i] = c /\ \A j \in 1..(i - 1) : s[j] # c
  ELSE 0

Before(s, c) == IF IndexOf(s, c) = 0 THEN s ELSE SubSeq(s, 1, IndexOf(s, c) - 1)

After(s, c) == IF IndexOf(s, c) = 0 THEN <<>> ELSE SubSeq(s, IndexOf(s, c) + 1, Len(s))

RECURSIVE SplitOn(_, _)
SplitOn(s, c) ==
  IF IndexOf(s, c) = 0 THEN <<s>> ELSE <<Before(s, c)>> \o SplitOn(After(s, c), c)

RECURSIVE LStrip(_)
LStrip(s) == IF s # <<>> /\ Head(s) = " " THEN LStrip(Tail(s)) ELSE s

RECURSIVE RStrip(_)
RStrip(s) == IF s # <<>> /\ s[Len(s)] = " " THEN RStrip(SubSeq(s, 1, Len(s) - 1)) ELSE s

strip(s) == RStrip(LStrip(s))

startswith(s, c) == s # <<>> /\ Head(s) = c

\* ------------------------------------------------------- pure functions
NoDuration == 0 - 1

Pad2(n) == IF n < 10 THEN "0" \o ToString(n) ELSE ToString(n)

\* str(timedelta(seconds=int(seconds))): "[D day[s], ]H:MM:SS"
seconds_to_hms(seconds) ==
  IF seconds = NoDuration THEN ""
  ELSE LET days == seconds \div 86400
           rest == seconds % 86400
           hms  == ToString(rest \div 3600) \o ":" \o Pad2((rest % 3600) \div 60)
                   \o ":" \o Pad2(rest % 60)
       IN  IF days = 0 THEN hms
           ELSE ToString(days) \o (IF days = 1 THEN " day, " ELSE " days, ") \o hms

Truthy(seconds) == seconds # NoDuration /\ seconds # 0

\* parse_qs(urlparse(u).query).get("list")[0], None as ""
parse_playlist_id_from_url(u) ==
  LET query  == After(Before(u, "#"), "?")
      pairs  == SplitOn(query, "&")
      values == SelectSeq(pairs, LAMBDA p : /\ IndexOf(p, "=") # 0
                                            /\ Before(p, "=") = <<"list">>
                                            /\ After(p, "=") # <<>>)
  IN  IF values = <<>> THEN "" ELSE Str(After(values[1], "="))

\* ------------------------------------------------ read_playlist_inputs
NoList == [given |-> FALSE]

\* Uniq, were the inputs returned as read
UniqNone(items, seen) == items

RECURSIVE Uniq(_, _)
Uniq(items, seen) ==
  IF items = <<>> THEN <<>>
  ELSE IF Head(items) \in seen THEN Uniq(Tail(items), seen)
       ELSE <<Head(items)>> \o Uniq(Tail(items), seen \cup {Head(items)})

KeepLine(line) == strip(line) # <<>> /\ ~startswith(strip(line), "#")

RECURSIVE FileItems(_)
FileItems(lines) ==
  IF lines = <<>> THEN <<>>
  ELSE (IF KeepLine(Head(lines)) THEN <<strip(Head(lines))>> ELSE <<>>)
       \o FileItems(Tail(lines))

ListMissing(a) == a.list.given /\ ~a.list.exists

read_playlist_inputs(a) ==
  Uniq(a.playlists \o (IF a.list.given THEN FileItems(a.list.lines) ELSE <<>>), {})

\* ------------------------------------------------------------ extraction
\* Python's None, as an entry of a playlist and as the backend's answer
None == [none |-> TRUE]

\* ydl.extract_info raising instead of returning
Raises == [raises |-> TRUE]

NoCookies == [given |-> FALSE]

WatchUrl(vid_id) == "https://www.youtube.com/watch?v=" \o vid_id

Unavailable(i) ==
  [index |-> i, title |-> "[Unavailable]", channel |-> "", duration |-> "",
   url |-> "", id |-> ""]

FlatRow(i, e) ==
  IF e = None THEN Unavailable(i)
  ELSE [index    |-> IF e.playlist_index # 0 THEN e.playlist_index ELSE i,
        title    |-> e.title,
        channel  |-> Or(e.uploader, e.channel),
        duration |-> IF Truthy(e.duration) THEN seconds_to_hms(e.duration) ELSE "",
        url      |-> Or(e.url, Or(e.webpage_url, IF e.id # "" THEN WatchUrl(e.id) ELSE "")),
        id       |-> e.id]

FullRow(i, entry) ==
  IF entry = None THEN Unavailable(i)
  ELSE [index    |-> IF entry.playlist_index # 0 THEN entry.playlist_index ELSE i,
        title    |-> entry.title,
        channel  |-> Or(entry.uploader, entry.channel),
        duration |-> IF Truthy(entry.duration) THEN seconds_to_hms(entry.duration) ELSE "",
        url      |-> Or(entry.webpage_url, IF entry.id # "" THEN WatchUrl(entry.id) ELSE ""),
        id       |-> entry.id]

Raised == [raised |-> TRUE]

Returned(title, pid, rows) == [raised |-> FALSE, title |-> title, pid |-> pid, rows |-> rows]

\* info is what ydl.extract_info(playlist_url) gave
CookiesMissing(cookies) == cookies.given /\ ~cookies.exists

extract_playlist_flat(playlist_url, cookies, info) ==
  IF CookiesMissing(cookies) THEN Raised
  ELSE IF info = Raises \/ info = None THEN Raised
  ELSE LET entries == IF "entries" \in DOMAIN info THEN info.entries ELSE <<>>
       IN  Returned(Or(info.title, "Playlist"),
                    Or(info.id, parse_playlist_id_from_url(playlist_url)),
                    [i \in 1..Len(entries) |-> FlatRow(i, entries[i])])

extract_playlist_full(playlist_url, cookies, info) ==
  IF info = Raises \/ info = None THEN Raised
  ELSE LET single  == ~("entries" \in DOMAIN info)
           entries == IF single THEN <<info>> ELSE info.entries
       IN  Returned(Or(info.title, IF single THEN "Single video" ELSE "Playlist"),
                    Or(info.id, parse_playlist_id_from_url(playlist_url)),
                    [i \in 1..Len(entries) |-> FullRow(i, entries[i])])

\* v is what ydl.extract_info(url) gave for one video
enrich_one(v) ==
  IF v = Raises THEN [raised |-> FALSE, channel |-> "", duration |-> ""]
  ELSE IF v = None THEN [raised |-> TRUE, channel |-> "", duration |-> ""]
  ELSE [raised   |-> FALSE,
        channel  |-> Or(v.uploader, v.channel),
        duration |-> IF Truthy(v.duration) THEN seconds_to_hms(v.duration) ELSE ""]

\* ------------------------------------------------------- hybrid_enrich
\* NeedsEnrich, were both fields required to be missing
NeedsEnrichBoth(r) == r.channel = "" /\ r.duration = ""

NeedsEnrich(r) == r.channel = "" \/ r.duration = ""

to_enrich(rs) == SelectSeq([i \in 1..Len(rs) |-> i], LAMBDA i : NeedsEnrich(rs[i]))

\* PoolSize, were workers passed on as given
PoolSizeRaw(workers) == workers

PoolSize(workers) == Max(1, workers)

\* ApplyExtra, were the row not asked whether the field is missing
ApplyExtraOverwrite(r, fut) ==
  LET extra == IF fut.result.raised THEN [channel |-> "", duration |-> ""]
               ELSE [channel |-> fut.result.channel, duration |-> fut.result.duration]
      r1    == IF extra.channel # "" THEN [r EXCEPT !.channel = extra.channel] ELSE r
  IN  IF extra.duration # "" THEN [r1 EXCEPT !.duration = extra.duration] ELSE r1

\* the body of the as_completed loop for one future
ApplyExtra(r, fut) ==
  LET extra == IF fut.result.raised THEN [channel |-> "", duration |-> ""]
               ELSE [channel |-> fut.result.channel, duration |-> fut.result.duration]
      r1    == IF extra.channel # "" /\ r.channel = ""
               THEN [r EXCEPT !.channel = extra.channel] ELSE r
  IN  IF extra.duration # "" /\ r1.duration = ""
      THEN [r1 EXCEPT !.duration = extra.duration] ELSE r1

\* ----------------------------------------------------------------- main
Annotate(rs, title, pid) ==
  [i \in 1..Len(rs) |-> rs[i] @@ [playlist_title |-> title, playlist_id |-> pid]]

Key(r) == Or(r.id, r.url)

\* Dedupe, were the key never added to seen_ids
RECURSIVE DedupeNoAdd(_, _)
DedupeNoAdd(rs, seen_ids) ==
  IF rs = <<>> THEN <<>>
  ELSE IF Key(Head(rs)) # "" /\ Key(Head(rs)) \notin seen_ids
       THEN <<Head(rs)>> \o DedupeNoAdd(Tail(rs), seen_ids)
       ELSE DedupeNoAdd(Tail(rs), seen_ids)

RECURSIVE Dedupe(_, _)
Dedupe(rs, seen_ids) ==
  IF rs = <<>> THEN <<>>
  ELSE IF Key(Head(rs)) # "" /\ Key(Head(rs)) \notin seen_ids
       THEN <<Head(rs)>> \o Dedupe(Tail(rs), seen_ids \cup {Key(Head(rs))})
       ELSE Dedupe(Tail(rs), seen_ids)

DefaultOutput(format) == "playlists." \o format

\* ------------------------------------------------------------- writers
RECURSIVE GroupKeys(_, _)
GroupKeys(rs, seen) ==
  IF rs = <<>> THEN <<>>
  ELSE LET g == <<Head(rs).playlist_title, Head(rs).playlist_id>>
       IN  IF g \in seen THEN GroupKeys(Tail(rs), seen)
           ELSE <<g>> \o GroupKeys(Tail(rs), seen \cup {g})

Groups(rs) ==
  LET gs == GroupKeys(rs, {})
  IN  [n \in 1..Len(gs) |->
         [ptitle |-> gs[n][1],
          items  |-> SelectSeq(rs, LAMBDA r : <<r.playlist_title, r.playlist_id>> = gs[n])]]

save_csv(rs) ==
  [i \in 1..Len(rs) |->
     <<rs[i].playlist_title, rs[i].playlist_id, rs[i].index, rs[i].title,
       rs[i].channel, rs[i].duration, rs[i].url, rs[i].id>>]

TxtLine(r) ==
  <<r.index, r.title, r.channel,
    IF r.duration # "" THEN "(" \o r.duration \o ")" ELSE "", r.url>>

save_txt(rs) ==
  Flatten([n \in 1..Len(Groups(rs)) |->
     <<"=== " \o Or(Groups(rs)[n].ptitle, "Playlist") \o " ===">>
     \o [i \in 1..Len(Groups(rs)[n].items) |-> TxtLine(Groups(rs)[n].items[i])]])

MdLine(r) ==
  <<r.index, Or(r.title, "Untitled"), r.url, r.channel,
    IF r.duration # "" THEN " (" \o r.duration \o ")" ELSE "">>

save_md(rs) ==
  <<"# YouTube Playlists Export">>
  \o Flatten([n \in 1..Len(Groups(rs)) |->
     <<"## " \o Or(Groups(rs)[n].ptitle, "Playlist")>>
     \o [i \in 1..Len(Groups(rs)[n].items) |-> MdLine(Groups(rs)[n].items[i])]])

write_output(fmt, rs) ==
  IF fmt = "csv" THEN save_csv(rs)
  ELSE IF fmt = "txt" THEN save_txt(rs)
  ELSE save_md(rs)

\* ---------------------------------------------------------------- state
VARIABLES
  args,      \* the parsed command line
  backend,   \* what ydl.extract_info gives for each playlist input
  pc,        \* where main() is
  inputs,    \* main: inputs
  n,         \* main: position of src in inputs
  all_rows,  \* main: all_rows
  skipped,   \* the playlists main() printed "Skipping" for
  title,     \* main: title, while hybrid_enrich runs
  pid,       \* main: pid, while hybrid_enrich runs
  rows,      \* hybrid_enrich: rows
  j,         \* hybrid_enrich: position in to_enrich
  futures,   \* hybrid_enrich: futures, in order of submission
  uniq,      \* main: uniq
  extracted, \* the playlist urls ydl.extract_info was called with
  calls,     \* the calls of write_output: <<fmt, out_path, rows>>
  file       \* the content of the output file

vars == <<args, backend, pc, inputs, n, all_rows, skipped, title, pid, rows, j,
          futures, uniq, extracted, calls, file>>

\* --------------------------------------------------------------- inputs
Entry(id, url, webpage_url, t, uploader, channel, duration, playlist_index) ==
  [id |-> id, url |-> url, webpage_url |-> webpage_url, title |-> t,
   uploader |-> uploader, channel |-> channel, duration |-> duration,
   playlist_index |-> playlist_index]

Entries ==
  { None,
    Entry("v2", "", "w2", "T2", "Up2", "", 75, 0),
    Entry("v1", "", "", "T1", "", "", NoDuration, 0),
    Entry("", "u3", "", "", "", "Ch3", 0, 7) }

PlaylistInfos(titles) ==
  { [title |-> t[1], id |-> t[2], entries |-> es] :
      t \in titles, es \in SeqsUpTo(Entries, MaxRows) }

Infos ==
  { Raises, None, Entry("v2", "", "w2", "T2", "Up2", "", 75, 0) }
  \cup PlaylistInfos({<<"Mix", "PL1">>, <<"", "">>})

EnrichInfos == PlaylistInfos({<<"Mix", "PL1">>})

VideoResults ==
  { Raises, None,
    [uploader |-> "UpX", channel |-> "", duration |-> 90061],
    [uploader |-> "", channel |-> "ChX", duration |-> NoDuration],
    [uploader |-> "", channel |-> "", duration |-> 0] }

PosArgs == { <<"PLa">>, <<"u", "?", "list", "=", "PLb">>, <<"#", "PLa">> }

FileLines == { <<"PLa">>, <<" ", "PLc", " ">>, <<" ", "#", "PLc">>, <<" ">> }

Lists ==
  { NoList, [given |-> TRUE, exists |-> FALSE, lines |-> <<>>] }
  \cup { [given |-> TRUE, exists |-> TRUE, lines |-> ls] : ls \in SeqsUpTo(FileLines, MaxLines) }

Cookies == { NoCookies, [given |-> TRUE, exists |-> FALSE], [given |-> TRUE, exists |-> TRUE] }

Modes == {"flat", "hybrid", "full"}

DefaultWorkers == 6

Options ==
  [format : {"csv", "txt", "md"}, cookies : {NoCookies}, dedupe : BOOLEAN]
  \cup [format : {"csv"}, cookies : Cookies, dedupe : {FALSE}]

\* runs that differ in how the playlist inputs are given
InputRuns ==
  [ playlists : SeqsUpTo(PosArgs, MaxArgs), list : Lists, output : {""}, format : {"csv"},
    cookies : {NoCookies}, mode : Modes, workers : {DefaultWorkers}, dedupe : {FALSE} ]

\* runs that differ in the options and in what the playlists hold
MergeRuns ==
  { [ playlists |-> p, list |-> NoList, output |-> "", format |-> o.format,
      cookies |-> o.cookies, mode |-> m, workers |-> DefaultWorkers, dedupe |-> o.dedupe ] :
    p \in {<<(<<"PLa">>)>>, <<(<<"PLa">>), <<"u", "?", "list", "=", "PLb">> >>},
    o \in Options, m \in {"flat", "full"} }
  \cup
  { [ playlists |-> p, list |-> NoList, output |-> "", format |-> "csv",
      cookies |-> o.cookies, mode |-> "hybrid", workers |-> DefaultWorkers,
      dedupe |-> o.dedupe ] :
    p \in {<<(<<"PLa">>), <<"u", "?", "list", "=", "PLb">> >>},
    o \in {x \in Options : x.format = "csv" /\ x.cookies # [given |-> TRUE, exists |-> TRUE]} }

\* runs that differ in the size of the thread pool
EnrichRuns ==
  [ playlists : {<<(<<"PLa">>)>>}, list : {NoList}, output : {""}, format : {"csv"},
    cookies : {NoCookies}, mode : {"hybrid"}, workers : {0 - 1, 0, MaxWorkers},
    dedupe : {FALSE} ]

FewInfos == { [title |-> "Mix", id |-> "PL1", entries |-> <<>>] }

Size(info) ==
  IF info = Raises \/ info = None THEN 0
  ELSE IF "entries" \in DOMAIN info THEN Len(info.entries) ELSE 1

RECURSIVE Total(_, _)
Total(b, S) ==
  IF S = {} THEN 0
  ELSE LET x == CHOOSE x \in S : TRUE IN Size(b[x]) + Total(b, S \ {x})

Backends(a, infos) ==
  {b \in [Range(read_playlist_inputs(a)) -> infos] : Total(b, DOMAIN b) <= MaxRows}

\* the state of main() when it starts
Start ==
  /\ pc = "start"
  /\ inputs = <<>>
  /\ n = 0
  /\ all_rows = <<>>
  /\ skipped = <<>>
  /\ title = ""
  /\ pid = ""
  /\ rows = <<>>
  /\ j = 0
  /\ futures = <<>>
  /\ uniq = <<>>
  /\ extracted = <<>>
  /\ calls = <<>>
  /\ file = <<>>

Init ==
  /\ \/ args \in InputRuns /\ backend \in Backends(args, FewInfos)
     \/ args \in MergeRuns /\ backend \in Backends(args, Infos)
     \/ args \in EnrichRuns /\ backend \in Backends(args, EnrichInfos)
  /\ Start

\* the runs the liveness properties are checked on
LiveRuns ==
  EnrichRuns
  \cup [ playlists : {<<(<<"PLa">>), <<"u", "?", "list", "=", "PLb">> >>}, list : {NoList},
         output : {""}, format : {"csv"}, cookies : {NoCookies}, mode : Modes,
         workers : {DefaultWorkers}, dedupe : BOOLEAN ]

LiveInfos ==
  { Raises,
    [title |-> "", id |-> "",
     entries |-> <<Entry("v1", "", "", "T1", "", "", NoDuration, 0)>>] }
  \cup { [title |-> "Mix", id |-> "PL1", entries |-> es] :
           es \in SeqsUpTo({None, Entry("v1", "", "", "T1", "", "", NoDuration, 0)}, MaxRows) }

LiveInit ==
  /\ args \in LiveRuns
  /\ backend \in Backends(args, LiveInfos)
  /\ Start

\* -------------------------------------------------------------- actions
src == inputs[n]

InLoop == pc = "loop" /\ n <= Len(inputs)

\* main, to the start of the loop over inputs
ReadInputs ==
  /\ pc = "start"
  /\ IF ListMissing(args)
     THEN pc' = "crashed" /\ UNCHANGED <<args, inputs, n>>
     ELSE /\ inputs' = read_playlist_inputs(args)
          /\ IF inputs' = <<>>
             THEN pc' = "exit" /\ UNCHANGED <<args, n>>
             ELSE /\ pc' = "loop"
                  /\ n' = 1
                  /\ args' = [args EXCEPT !.output = Or(@, DefaultOutput(args.format))]
  /\ UNCHANGED <<backend, all_rows, skipped, title, pid, rows, j, futures, uniq, extracted, calls, file>>

\* Pass, were a failing playlist to end the loop
PassAbort(res) ==
  /\ IF res.raised
     THEN skipped' = Append(skipped, src) /\ n' = Len(inputs) + 1 /\ UNCHANGED all_rows
     ELSE /\ all_rows' = all_rows \o Annotate(res.rows, res.title, res.pid)
          /\ n' = n + 1
          /\ UNCHANGED skipped

\* Pass, were the rows put in front of the merged list
PassPrepend(res) ==
  /\ IF res.raised
     THEN skipped' = Append(skipped, src) /\ UNCHANGED all_rows
     ELSE all_rows' = Annotate(res.rows, res.title, res.pid) \o all_rows /\ UNCHANGED skipped
  /\ n' = n + 1

\* one pass of the loop body with nothing running in between
Pass(res) ==
  /\ IF res.raised
     THEN skipped' = Append(skipped, src) /\ UNCHANGED all_rows
     ELSE all_rows' = all_rows \o Annotate(res.rows, res.title, res.pid) /\ UNCHANGED skipped
  /\ n' = n + 1

ExtractFlat ==
  /\ InLoop
  /\ args.mode = "flat"
  /\ Pass(extract_playlist_flat(src, args.cookies, backend[src]))
  /\ extracted' = IF CookiesMissing(args.cookies) THEN extracted ELSE Append(extracted, src)
  /\ UNCHANGED <<args, backend, pc, inputs, title, pid, rows, j, futures, uniq, calls, file>>

ExtractFull ==
  /\ InLoop
  /\ args.mode = "full"
  /\ Pass(extract_playlist_full(src, args.cookies, backend[src]))
  /\ extracted' = Append(extracted, src)
  /\ UNCHANGED <<args, backend, pc, inputs, title, pid, rows, j, futures, uniq, calls, file>>

\* hybrid mode: the flat extraction, and hybrid_enrich up to its thread pool
ExtractHybrid ==
  /\ InLoop
  /\ args.mode = "hybrid"
  /\ LET res == extract_playlist_flat(src, args.cookies, backend[src])
     IN  IF res.raised \/ to_enrich(res.rows) = <<>>
         THEN Pass(res) /\ UNCHANGED <<pc, title, pid, rows, j>>
         ELSE /\ pc' = "submit"
              /\ title' = res.title
              /\ pid' = res.pid
              /\ rows' = res.rows
              /\ j' = 1
              /\ UNCHANGED <<n, all_rows, skipped>>
  /\ extracted' = IF CookiesMissing(args.cookies) THEN extracted ELSE Append(extracted, src)
  /\ UNCHANGED <<args, backend, inputs, futures, uniq, calls, file>>

\* hybrid_enrich: one pass of the loop that submits the fetches
Submit ==
  /\ pc = "submit"
  /\ LET idx == to_enrich(rows)[j]
     IN  futures' = IF rows[idx].url = "" THEN futures
                    ELSE Append(futures, [idx |-> idx, url |-> rows[idx].url,
                                          st |-> "pending", result |-> None])
  /\ j' = j + 1
  /\ pc' = IF j = Len(to_enrich(rows)) THEN "collect" ELSE "submit"
  /\ UNCHANGED <<args, backend, inputs, n, all_rows, skipped, title, pid, rows, uniq, extracted, calls, file>>

Running == {f \in DOMAIN futures : futures[f].st = "running"}

Pending == {f \in DOMAIN futures : futures[f].st = "pending"}

\* a thread of the pool takes the oldest work item
StartFetch ==
  /\ pc \in {"submit", "collect"}
  /\ Pending # {}
  /\ Cardinality(Running) < PoolSize(args.workers)
  /\ LET f == CHOOSE f \in Pending : \A g \in Pending : f <= g
     IN  futures' = [futures EXCEPT ![f].st = "running"]
  /\ UNCHANGED <<args, backend, pc, inputs, n, all_rows, skipped, title, pid, rows, j, uniq,
                 extracted, calls, file>>

\* enrich_one returns or raises in a thread of the pool
FinishFetch ==
  /\ \E f \in Running, v \in VideoResults :
       futures' = [futures EXCEPT ![f].st = "done", ![f].result = enrich_one(v)]
  /\ UNCHANGED <<args, backend, pc, inputs, n, all_rows, skipped, title, pid, rows, j, uniq,
                 extracted, calls, file>>

\* Collect, were the result written to the row at the position of the future
CollectByPosition ==
  /\ pc = "collect"
  /\ \E f \in DOMAIN futures :
       /\ futures[f].st = "done"
       /\ rows' = [rows EXCEPT ![f] = ApplyExtra(@, futures[f])]
       /\ futures' = [futures EXCEPT ![f].st = "collected"]
  /\ UNCHANGED <<args, backend, pc, inputs, n, all_rows, skipped, title, pid, j, uniq,
                 extracted, calls, file>>

\* Collect, were fut.result() called outside the try
CollectNoCatch ==
  /\ pc = "collect"
  /\ \E f \in DOMAIN futures :
       /\ futures[f].st = "done"
       /\ IF futures[f].result.raised
          THEN /\ Pass(Raised)
               /\ pc' = "loop"
               /\ title' = ""
               /\ pid' = ""
               /\ rows' = <<>>
               /\ j' = 0
               /\ futures' = <<>>
          ELSE /\ rows' = [rows EXCEPT ![futures[f].idx] = ApplyExtra(@, futures[f])]
               /\ futures' = [futures EXCEPT ![f].st = "collected"]
               /\ UNCHANGED <<pc, n, all_rows, skipped, title, pid, j>>
  /\ UNCHANGED <<args, backend, inputs, uniq, extracted, calls, file>>

\* hybrid_enrich: one pass of the as_completed loop
Collect ==
  /\ pc = "collect"
  /\ \E f \in DOMAIN futures :
       /\ futures[f].st = "done"
       /\ rows' = [rows EXCEPT ![futures[f].idx] = ApplyExtra(@, futures[f])]
       /\ futures' = [futures EXCEPT ![f].st = "collected"]
  /\ UNCHANGED <<args, backend, pc, inputs, n, all_rows, skipped, title, pid, j, uniq,
                 extracted, calls, file>>

\* hybrid_enrich returns; main annotates and merges the rows
EnrichReturn ==
  /\ pc = "collect"
  /\ \A f \in DOMAIN futures : futures[f].st = "collected"
  /\ Pass(Returned(title, pid, rows))
  /\ pc' = "loop"
  /\ title' = ""
  /\ pid' = ""
  /\ rows' = <<>>
  /\ j' = 0
  /\ futures' = <<>>
  /\ UNCHANGED <<args, backend, inputs, uniq, extracted, calls, file>>

\* main, after the loop: the de-duplication
DedupeRows ==
  /\ pc = "loop"
  /\ n > Len(inputs)
  /\ uniq' = IF args.dedupe THEN Dedupe(all_rows, {}) ELSE uniq
  /\ pc' = "write"
  /\ UNCHANGED <<args, backend, inputs, n, all_rows, skipped, title, pid, rows, j, futures,
                 extracted, calls, file>>

\* main: all_rows = uniq when de-duplicating, then write_output
WriteOutput ==
  /\ pc = "write"
  /\ all_rows' = IF args.dedupe THEN uniq ELSE all_rows
  /\ calls' = Append(calls, <<args.format, args.output, all_rows'>>)
  /\ file' = write_output(args.format, all_rows')
  /\ pc' = "done"
  /\ UNCHANGED <<args, backend, inputs, n, skipped, title, pid, rows, j, futures, uniq, extracted>>

Next ==
  \/ ReadInputs
  \/ ExtractFlat
  \/ ExtractFull
  \/ ExtractHybrid
  \/ Submit
  \/ StartFetch
  \/ FinishFetch
  \/ Collect
  \/ EnrichReturn
  \/ DedupeRows
  \/ WriteOutput

Spec == Init /\ [][Next]_vars

\* main() and the threads of the pool keep running, and every call of the
\* backend returns or raises
FairSpec == LiveInit /\ [][Next]_vars /\ WF_vars(Next)

\* ------------------------------------------------- reference definitions
\* what the try block of main gives for playlist input s
Outcome(s) ==
  IF args.mode = "full" THEN extract_playlist_full(s, args.cookies, backend[s])
  ELSE extract_playlist_flat(s, args.cookies, backend[s])

Failing(s) == Outcome(s).raised

\* a row without the two fields hybrid_enrich may fill
Core(r) ==
  [index |-> r.index, title |-> r.title, url |-> r.url, id |-> r.id,
   playlist_title |-> r.playlist_title, playlist_id |-> r.playlist_id]

CoreSeq(rs) == [i \in 1..Len(rs) |-> Core(rs[i])]

ExpectedCore(o) ==
  [i \in 1..Len(o.rows) |->
     [index |-> o.rows[i].index, title |-> o.rows[i].title, url |-> o.rows[i].url,
      id |-> o.rows[i].id, playlist_title |-> o.title, playlist_id |-> o.pid]]

\* the rows of the first k inputs, in input order, failing playlists left out
RECURSIVE ExpectedMerged(_)
ExpectedMerged(k) ==
  IF k = 0 THEN <<>>
  ELSE ExpectedMerged(k - 1)
       \o (IF Failing(inputs[k]) THEN <<>> ELSE ExpectedCore(Outcome(inputs[k])))

\* the rows the flat extraction gave hybrid_enrich
Base == extract_playlist_flat(src, args.cookies, backend[src]).rows

Enriching == pc \in {"submit", "collect"}

WrittenRows == calls[1][3]

\* C1: a playlist whose extraction raises adds no row and is reported as
\* skipped; every later input is still processed; the rows of every playlist
\* that did not fail are in the merged list, in every mode.
C1_CatchAndSkip ==
  pc \in {"loop", "write"} =>
    /\ CoreSeq(all_rows) = ExpectedMerged(n - 1)
    /\ skipped = SelectSeq(SubSeq(inputs, 1, n - 1), Failing)
    /\ pc = "write" => n - 1 = Len(inputs)

C1_Witness ==
  /\ pc = "write"
  /\ Len(inputs) = 2
  /\ Failing(inputs[1])
  /\ ~Failing(inputs[2])
  /\ all_rows # <<>>

C2_Written ==
  /\ Len(calls) <= 1
  /\ calls # <<>> => pc = "done"
  /\ pc = "done" =>
       /\ Len(calls) = 1
       /\ n - 1 = Len(inputs)
       /\ WrittenRows = all_rows
       /\ CoreSeq(WrittenRows) =
            IF args.dedupe THEN Dedupe(ExpectedMerged(Len(inputs)), {})
            ELSE ExpectedMerged(Len(inputs))
       /\ args.format = "csv" =>
            file = [i \in 1..Len(all_rows) |->
                      <<all_rows[i].playlist_title, all_rows[i].playlist_id,
                        all_rows[i].index, all_rows[i].title, all_rows[i].channel,
                        all_rows[i].duration, all_rows[i].url, all_rows[i].id>>]

C3_NoDuplicateVideo ==
  pc = "done" /\ args.dedupe =>
    /\ \A i, k \in DOMAIN WrittenRows :
         i < k /\ WrittenRows[i].id # "" => WrittenRows[i].id # WrittenRows[k].id
    /\ args.format = "csv" =>
         \A i, k \in DOMAIN file : i < k /\ file[i][8] # "" => file[i][8] # file[k][8]

C3_Witness ==
  /\ pc = "done"
  /\ args.dedupe
  /\ Len(WrittenRows) >= 1
  /\ \E i, k \in DOMAIN ExpectedMerged(Len(inputs)) :
       /\ i < k
       /\ ExpectedMerged(Len(inputs))[i].id # ""
       /\ ExpectedMerged(Len(inputs))[i].id = ExpectedMerged(Len(inputs))[k].id

\* ------------------------------------------------------------------ C4
FirstOfItsId(rs, i) == \A k \in 1..(i - 1) : rs[k].id # rs[i].id

RECURSIVE Pick(_, _, _)
Pick(rs, K, i) ==
  IF i > Len(rs) THEN <<>>
  ELSE (IF i \in K THEN <<rs[i]>> ELSE <<>>) \o Pick(rs, K, i + 1)

\* C4: --dedupe drops a row only if an earlier row of the merged list has
\* the same video id, and keeps every other row in its original order.
C4_RemovesOnlyDuplicates ==
  pc = "write" /\ args.dedupe =>
    \E K \in SUBSET DOMAIN all_rows :
      /\ \A i \in DOMAIN all_rows : FirstOfItsId(all_rows, i) => i \in K
      /\ uniq = Pick(all_rows, K, 1)

OnlyFilled(b, r) ==
  /\ r.index = b.index
  /\ r.title = b.title
  /\ r.url = b.url
  /\ r.id = b.id
  /\ b.channel # "" => r.channel = b.channel
  /\ b.duration # "" => r.duration = b.duration

\* C5: while and after hybrid_enrich handles the results, in any order and
\* whatever they are, there are as many rows as the flat extraction gave, in
\* the same order, with the same index, title, url and id, and a channel or
\* duration that was not empty is unchanged.
C5_OnlyFillsMissing ==
  Enriching =>
    LET flat == Base
    IN  /\ Len(rows) = Len(flat)
        /\ \A i \in DOMAIN rows : OnlyFilled(flat[i], rows[i])

C5_Witness ==
  /\ pc = "collect"
  /\ \E f \in DOMAIN futures :
       /\ futures[f].st = "collected"
       /\ Base[futures[f].idx].channel # ""
       /\ futures[f].result.channel # ""
       /\ futures[f].result.channel # Base[futures[f].idx].channel
       /\ rows[futures[f].idx].duration # Base[futures[f].idx].duration

Collected(i) == {f \in DOMAIN futures : futures[f].st = "collected" /\ futures[f].idx = i}

\* C6: whatever the order in which the fetches start, finish and are
\* handled, every row is the flat row with the result of its own fetch
\* applied to it once that result has been handled, and the flat row before.
C6_OrderInsensitive ==
  Enriching =>
    LET flat == Base
    IN  \A i \in DOMAIN rows :
          /\ Cardinality(Collected(i)) <= 1
          /\ rows[i] = IF Collected(i) = {} THEN flat[i]
                       ELSE ApplyExtra(flat[i], futures[CHOOSE f \in Collected(i) : TRUE])

C6_Witness ==
  /\ pc = "collect"
  /\ Len(futures) = 2
  /\ futures[2].st = "collected"
  /\ futures[1].st = "running"
  /\ rows[futures[2].idx] # Base[futures[2].idx]

FetchFailed(fut) ==
  fut.result.raised \/ (fut.result.channel = "" /\ fut.result.duration = "")

\* C7: a fetch that raised, got no info or got an empty channel and duration
\* leaves its row as the flat extraction gave it; the fetches that got
\* something fill their rows; in hybrid mode a playlist is skipped only when
\* its flat extraction raised.
C7_BestEffort ==
  /\ Enriching =>
       LET flat == Base
       IN  \A f \in DOMAIN futures :
             futures[f].st = "collected" =>
               /\ FetchFailed(futures[f]) => rows[futures[f].idx] = flat[futures[f].idx]
               /\ ~FetchFailed(futures[f]) =>
                    /\ flat[futures[f].idx].channel = "" =>
                         rows[futures[f].idx].channel = futures[f].result.channel
                    /\ flat[futures[f].idx].duration = "" =>
                         rows[futures[f].idx].duration = futures[f].result.duration
  /\ args.mode = "hybrid" /\ pc = "loop" =>
       \A i \in DOMAIN skipped :
         extract_playlist_flat(skipped[i], args.cookies, backend[skipped[i]]).raised

C7_Witness ==
  /\ pc = "collect"
  /\ \A f \in DOMAIN futures : futures[f].st = "collected"
  /\ \E f, g \in DOMAIN futures :
       /\ futures[f].result.raised
       /\ ~FetchFailed(futures[g])
       /\ rows[futures[g].idx] # Base[futures[g].idx]

AtMostPoolSize ==
  /\ Cardinality(Running) <= (IF args.workers >= 1 THEN args.workers ELSE 1)
  /\ pc \notin {"submit", "collect"} => futures = <<>>

\* C8: never more fetches run at once than max(1, workers), one at most for
\* a --workers value of 0 or below, and hybrid_enrich gets through every
\* fetch it submitted and returns.
C8_BoundedPool == []AtMostPoolSize /\ (pc = "submit" ~> pc = "loop")

C8_Witness ==
  /\ args.workers <= 0
  /\ Cardinality(Running) = 1
  /\ Pending # {}

Fetched == {futures[f].idx : f \in DOMAIN futures}

ToFetch(upto) ==
  LET flat == Base
  IN  {i \in 1..upto : (flat[i].channel = "" \/ flat[i].duration = "") /\ flat[i].url # ""}

\* C9: in flat and in full mode no fetch is ever submitted; in hybrid mode,
\* once hybrid_enrich has submitted its fetches, the rows with a fetch are the
\* rows of the flat extraction with an empty channel or duration and a url,
\* and no row has two.
C9_FetchesPerMode ==
  /\ args.mode # "hybrid" => futures = <<>> /\ ~Enriching
  /\ Enriching => Cardinality(Fetched) = Len(futures)
  /\ pc = "submit" => Fetched \subseteq ToFetch(Len(rows))
  /\ pc = "collect" => Fetched = ToFetch(Len(rows))

C9_Witness ==
  /\ pc = "collect"
  /\ Len(rows) = 2
  /\ Len(futures) = 1
  /\ \E i \in DOMAIN rows : i \notin Fetched /\ Base[i].url # ""

NonBlank(line) == {i \in DOMAIN line : line[i] # " "}

First(S) == CHOOSE i \in S : \A k \in S : i <= k

Last(S) == CHOOSE i \in S : \A k \in S : k <= i

Given ==
  args.playlists
  \o (IF args.list.given
      THEN LET kept == SelectSeq(args.list.lines, LAMBDA line :
                         NonBlank(line) # {} /\ line[First(NonBlank(line))] # "#")
           IN  [i \in 1..Len(kept) |->
                  SubSeq(kept[i], First(NonBlank(kept[i])), Last(NonBlank(kept[i])))]
      ELSE <<>>)

FirstAt(s, x) == First({i \in DOMAIN s : s[i] = x})

\* C10: the inputs are the positional arguments followed by the lines of the
\* --list file that are neither blank nor comments, each once, in order of
\* first occurrence; no input is extracted twice; with no input main() exits
\* before any extraction and writes nothing.
C10_InputsOnce ==
  /\ pc \notin {"start", "crashed"} =>
       LET given == Given
       IN  /\ Range(inputs) = Range(given)
           /\ \A i, k \in DOMAIN inputs :
                i < k => /\ inputs[i] # inputs[k]
                         /\ FirstAt(given, inputs[i]) < FirstAt(given, inputs[k])
           /\ pc = "exit" <=> inputs = <<>>
  /\ \A i, k \in DOMAIN extracted : i < k => extracted[i] # extracted[k]
  /\ Range(extracted) \subseteq Range(inputs)
  /\ pc \in {"start", "crashed", "exit"} => extracted = <<>> /\ calls = <<>> /\ file = <<>>

C10_Witness ==
  /\ pc = "done"
  /\ Len(args.playlists) = 2
  /\ args.list.given
  /\ Len(args.list.lines) = 2
  /\ Len(inputs) = 2
  /\ <<"PLc">> \in Range(inputs)
  /\ Len(extracted) = 2

====
